---- MODULE Spec2Model ----
(***************************************************************************)
(* RealTimeCorrelativeScanMatcher2D                                        *)
(* (cartographer/mapping/internal/2d/scan_matching/                        *)
(*  real_time_correlative_scan_matcher_2d.cc)                              *)
(*                                                                         *)
(* Floats are modelled in fixed point: a value v stands for v / Scale.     *)
(* Lengths are in metres, angles in radians, both times Scale.             *)
(***************************************************************************)
EXTENDS Integers, Sequences, FiniteSets, TLC

VARIABLES
    options,        \* options_: the matcher's configuration
    grid,           \* the Grid2D the callers pass (shared, read-only)
    arg,            \* arg[c]: the arguments of caller c's Match call
    pc,             \* pc[c]: where caller c's Match call stands
    frame,          \* frame[f]: the automatic variables of one invocation
    pose_estimate,  \* pose_estimate[c]: the object caller c's pointer names
    ret,            \* ret[c]: the value Match returned to caller c
    last,           \* last[c]: (score, pose) of caller c's previous call
    gsp,            \* SearchParameters handed to GenerateExhaustiveSearchCandidates
    gres            \* what GenerateExhaustiveSearchCandidates did with gsp

vars == <<options, grid, arg, pc, frame, pose_estimate, ret, last, gsp, gres>>

----------------------------------------------------------------------------
(* Bounds of the model *)

MaxWindow == 1      \* linear search window, in cells
GridW == 2          \* cells of the grid along x (one row)
MaxScans == 2       \* scan indices handed to the enumerator on its own
MaxBound == 1       \* |min|, |max| of linear bounds handed to the enumerator

----------------------------------------------------------------------------
(* Fixed-point floats *)

Scale == 1000
QuarterTurn == 1571
ExpTerms == 12

Abs(a) == IF a < 0 THEN -a ELSE a
Mul(a, b) == (a * b) \div Scale
Div(a, b) == (a * Scale) \div b
Pow2(a) == Mul(a, a)
CeilDiv(a, b) == (a + b - 1) \div b

RECURSIVE SqrtSearch(_, _, _)
SqrtSearch(n, lo, hi) ==
    IF lo >= hi THEN lo
    ELSE LET mid == (lo + hi + 1) \div 2
         IN  IF mid * mid <= n THEN SqrtSearch(n, mid, hi)
             ELSE SqrtSearch(n, lo, mid - 1)

\* std::hypot
Hypot(x, y) == SqrtSearch(x * x + y * y, 0, Abs(x) + Abs(y))

\* the series 1 - e + e^2/2! - ..., term by term
RECURSIVE ExpSeries(_, _, _, _)
ExpSeries(e, k, term, sum) ==
    IF k > ExpTerms THEN sum
    ELSE LET next == (term * e) \div (k * Scale)
         IN  ExpSeries(e, k + 1, next, IF k % 2 = 0 THEN sum + next ELSE sum - next)

ExpValue(e) == LET s == ExpSeries(e, 1, Scale, Scale) IN IF s < 0 THEN 0 ELSE s

\* the values of the series for exponents up to 1, computed once
ExpTable == [e \in 0..Scale |-> ExpValue(e)]

\* std::exp(-e), e >= 0
ExpNeg(e) == IF e <= Scale THEN ExpTable[e] ELSE ExpValue(e)

RECURSIVE SumSeq(_)
SumSeq(s) == IF s = <<>> THEN 0 ELSE Head(s) + SumSeq(Tail(s))

RECURSIVE Flatten(_)
Flatten(ss) == IF ss = <<>> THEN <<>> ELSE Head(ss) \o Flatten(Tail(ss))

----------------------------------------------------------------------------
(* GenerateExhaustiveSearchCandidates *)

\* Candidate2D(scan_index, x_index_offset, y_index_offset, search_parameters)
Candidate2D(scan_index, x_index_offset, y_index_offset, sp) ==
    [scan_index |-> scan_index,
     x_index_offset |-> x_index_offset,
     y_index_offset |-> y_index_offset,
     x |-> x_index_offset * sp.resolution,
     y |-> y_index_offset * sp.resolution,
     orientation |-> (scan_index - sp.num_angular_perturbations)
                        * sp.angular_perturbation_step_size,
     score |-> 0]

\* the first loop: the precomputed count
RECURSIVE NumCandidates(_, _)
NumCandidates(sp, n) ==
    IF n = 0 THEN 0
    ELSE LET b == sp.linear_bounds[n - 1]
             num_linear_x_candidates == b.max_x - b.min_x + 1
             num_linear_y_candidates == b.max_y - b.min_y + 1
         IN  NumCandidates(sp, n - 1)
             + num_linear_x_candidates * num_linear_y_candidates

\* for (v = lo; v <= hi; ++v)
Range(lo, hi) == IF hi < lo THEN <<>> ELSE [i \in 1..(hi - lo + 1) |-> lo + i - 1]

\* the candidates of one scan index: x ascending, then y ascending
ScanCandidates(sp, scan_index) ==
    LET b == sp.linear_bounds[scan_index]
        xs == Range(b.min_x, b.max_x)
        ys == Range(b.min_y, b.max_y)
    IN  Flatten([i \in 1..Len(xs) |->
                   [j \in 1..Len(ys) |-> Candidate2D(scan_index, xs[i], ys[j], sp)]])

\* the second loop
EnumerateCandidates(sp) ==
    Flatten([k \in 1..sp.num_scans |-> ScanCandidates(sp, k - 1)])

\* reserve, the loops, CHECK_EQ
GenerateExhaustiveSearchCandidates(sp) ==
    LET num_candidates == NumCandidates(sp, sp.num_scans)
        candidates == EnumerateCandidates(sp)
    IN  IF num_candidates < 0
        THEN [status |-> "length_error", num_candidates |-> num_candidates,
              candidates |-> <<>>]
        ELSE IF Len(candidates) # num_candidates
        THEN [status |-> "check_failed", num_candidates |-> num_candidates,
              candidates |-> candidates]
        ELSE [status |-> "ok", num_candidates |-> num_candidates,
              candidates |-> candidates]

----------------------------------------------------------------------------
(* The enumerator on its own, over bounded SearchParameters *)

LinearBoundsSet ==
    [min_x : -MaxBound..MaxBound, max_x : -MaxBound..MaxBound,
     min_y : -MaxBound..MaxBound, max_y : -MaxBound..MaxBound]

SearchParametersSet ==
    UNION {[num_scans : {n},
            linear_bounds : [0..(n - 1) -> LinearBoundsSet],
            resolution : {Scale \div 2},
            num_angular_perturbations : {n \div 2},
            angular_perturbation_step_size : {Scale \div 10}] : n \in 0..MaxScans}

NoResult == [status |-> "none", num_candidates |-> 0, candidates |-> <<>>]

Generate ==
    /\ gres.status = "none"
    /\ gres' = GenerateExhaustiveSearchCandidates(gsp)
    /\ UNCHANGED <<options, grid, arg, pc, frame, pose_estimate, ret, last, gsp>>

----------------------------------------------------------------------------
(* The grid, the scan and the search window (collaborators of the matcher) *)

Resolution == Scale \div 2          \* grid.limits().resolution()
AngularStep == Scale \div 10        \* angular_perturbation_step_size
kMinProbability == Scale \div 10
kMaxProbability == 9 * (Scale \div 10)
MaxCorrespondenceCost == 3 * (Scale \div 10)

GridCells == {<<x, 0>> : x \in 0..(GridW - 1)}
Contains(cell) == cell \in GridCells

ProbabilityValues == {kMinProbability, kMaxProbability}
TSDValues == {[tsd |-> 0, weight |-> Scale],
              [tsd |-> -(MaxCorrespondenceCost \div 2), weight |-> Scale \div 2],
              [tsd |-> MaxCorrespondenceCost, weight |-> 0]}

GridSet ==
    [type : {"PROBABILITY_GRID"}, cells : [GridCells -> ProbabilityValues]]
    \cup [type : {"TSDF"}, cells : [GridCells -> TSDValues]]

\* ProbabilityGrid::GetProbability
GetProbability(g, cell) == IF Contains(cell) THEN g.cells[cell] ELSE kMinProbability

\* TSDF2D::GetTSDAndWeight
GetTSDAndWeight(g, cell) ==
    IF Contains(cell) THEN g.cells[cell]
    ELSE [tsd |-> -MaxCorrespondenceCost, weight |-> 0]

\* SearchParameters(linear_search_window, angular_search_window,
\*                  rotated_point_cloud, resolution): the call passes the
\* resolution only, neither the grid's cell limits nor the initial translation.
SearchParameters(linear_search_window, angular_search_window, point_cloud, resolution) ==
    LET num_linear_perturbations == CeilDiv(linear_search_window, resolution)
        num_angular_perturbations == CeilDiv(angular_search_window, AngularStep)
        num_scans == 2 * num_angular_perturbations + 1
    IN  [num_scans |-> num_scans,
         linear_bounds |->
            [i \in 0..(num_scans - 1) |->
                [min_x |-> -num_linear_perturbations,
                 max_x |-> num_linear_perturbations,
                 min_y |-> -num_linear_perturbations,
                 max_y |-> num_linear_perturbations]],
         resolution |-> resolution,
         num_angular_perturbations |-> num_angular_perturbations,
         angular_perturbation_step_size |-> AngularStep]

\* A scan point is given by the cell it falls in at each rotation index:
\* "fixed" points stay in one cell, a "sweep" point moves with the rotation.
PointSet == [kind : {"fixed"}, x : 0..GridW] \cup {[kind |-> "sweep", x |-> 0]}

PointClouds == {<<>>} \cup {<<p>> : p \in PointSet}

\* GenerateRotatedScans, then DiscretizeScans with the initial translation
DiscretizeScans(point_cloud, sp) ==
    [i \in 0..(sp.num_scans - 1) |->
        [k \in 1..Len(point_cloud) |->
            IF point_cloud[k].kind = "fixed" THEN <<point_cloud[k].x, 0>>
            ELSE <<i % (GridW + 1), 0>>]]

----------------------------------------------------------------------------
(* ComputeCandidateScore, ScoreCandidates *)

\* the cell the scorer reads for one scan cell
ProposedIndex(xy_index, x_index_offset, y_index_offset) ==
    <<xy_index[1] + x_index_offset, xy_index[2] + y_index_offset>>

\* the TSDF score without the zero-weight return: 0/0 is NaN, CHECK_GE fails
ComputeCandidateScoreTSDFUnguarded(g, discrete_scan, x_index_offset, y_index_offset) ==
    LET tw(k) == GetTSDAndWeight(g, ProposedIndex(discrete_scan[k],
                                                   x_index_offset, y_index_offset))
        candidate_score ==
            SumSeq([k \in 1..Len(discrete_scan) |->
                      Mul(Div(MaxCorrespondenceCost - Abs(tw(k).tsd),
                              MaxCorrespondenceCost), tw(k).weight)])
        summed_weight == SumSeq([k \in 1..Len(discrete_scan) |-> tw(k).weight])
    IN  IF summed_weight = 0 THEN [ok |-> FALSE, score |-> 0]
        ELSE [ok |-> TRUE, score |-> Div(candidate_score, summed_weight)]

\* ComputeCandidateScore(const TSDF2D&, ...)
ComputeCandidateScoreTSDF(g, discrete_scan, x_index_offset, y_index_offset) ==
    LET tw(k) == GetTSDAndWeight(g, ProposedIndex(discrete_scan[k],
                                                   x_index_offset, y_index_offset))
        normalized_tsd_score(k) ==
            Div(MaxCorrespondenceCost - Abs(tw(k).tsd), MaxCorrespondenceCost)
        candidate_score ==
            SumSeq([k \in 1..Len(discrete_scan) |->
                      Mul(normalized_tsd_score(k), tw(k).weight)])
        summed_weight == SumSeq([k \in 1..Len(discrete_scan) |-> tw(k).weight])
    IN  IF summed_weight = 0 THEN [ok |-> TRUE, score |-> 0]
        ELSE LET q == Div(candidate_score, summed_weight)
             IN  [ok |-> q >= 0, score |-> q]

\* ComputeCandidateScore(const ProbabilityGrid&, ...); 0/0 is NaN, and
\* CHECK_GT(NaN, 0) fails
ComputeCandidateScoreProbability(g, discrete_scan, x_index_offset, y_index_offset) ==
    LET candidate_score ==
            SumSeq([k \in 1..Len(discrete_scan) |->
                      GetProbability(g, ProposedIndex(discrete_scan[k],
                                                      x_index_offset, y_index_offset))])
        size == Len(discrete_scan)
    IN  IF size = 0 THEN [ok |-> FALSE, score |-> "NaN"]
        ELSE LET q == Div(candidate_score, size * Scale)
             IN  [ok |-> q > 0, score |-> q]

\* the switch on grid.GetGridType()
RawScore(g, discrete_scans, candidate) ==
    IF g.type = "PROBABILITY_GRID"
    THEN ComputeCandidateScoreProbability(g, discrete_scans[candidate.scan_index],
             candidate.x_index_offset, candidate.y_index_offset)
    ELSE ComputeCandidateScoreTSDF(g, discrete_scans[candidate.scan_index],
             candidate.x_index_offset, candidate.y_index_offset)

\* the exponent with only the distance squared
PenaltyExponentDistanceSquared(opt, candidate) ==
    Mul(Pow2(Hypot(candidate.x, candidate.y)), opt.translation_delta_cost_weight)
    + Mul(Abs(candidate.orientation), opt.rotation_delta_cost_weight)

\* the exponent with the rotation weight added, not multiplied
PenaltyExponentWeightAdded(opt, candidate) ==
    Pow2(Mul(Hypot(candidate.x, candidate.y), opt.translation_delta_cost_weight)
         + Abs(candidate.orientation) + opt.rotation_delta_cost_weight)

\* the argument of std::exp, negated
PenaltyExponent(opt, candidate) ==
    Pow2(Mul(Hypot(candidate.x, candidate.y), opt.translation_delta_cost_weight)
         + Mul(Abs(candidate.orientation), opt.rotation_delta_cost_weight))

\* candidate.score *= std::exp(-...)
Penalized(opt, candidate, raw) == Mul(raw, ExpNeg(PenaltyExponent(opt, candidate)))

\* ScoreCandidates: candidates in order; a failed CHECK aborts at that candidate
ScoreCandidates(opt, g, discrete_scans, candidates) ==
    LET raw == [i \in 1..Len(candidates) |-> RawScore(g, discrete_scans, candidates[i])]
        failing == {i \in 1..Len(candidates) : ~raw[i].ok}
        first == IF failing = {} THEN Len(candidates) + 1
                 ELSE CHOOSE i \in failing : \A j \in failing : i <= j
    IN  [status |-> IF failing = {} THEN "ok" ELSE "check_failed",
         candidates |->
            [i \in 1..Len(candidates) |->
                IF i < first
                THEN [candidates[i] EXCEPT
                        !.score = Penalized(opt, candidates[i], raw[i].score)]
                ELSE candidates[i]]]

\* Candidate2D::operator<
Less(a, b) == a.score < b.score

\* std::max_element: the first of the largest elements (an index)
RECURSIVE MaxElementFrom(_, _, _)
MaxElementFrom(candidates, largest, it) ==
    IF it > Len(candidates) THEN largest
    ELSE IF Less(candidates[largest], candidates[it])
         THEN MaxElementFrom(candidates, it, it + 1)
         ELSE MaxElementFrom(candidates, largest, it + 1)

\* the last of the largest elements
RECURSIVE MaxElementLastFrom(_, _, _)
MaxElementLastFrom(candidates, largest, it) ==
    IF it > Len(candidates) THEN largest
    ELSE IF Less(candidates[it], candidates[largest])
         THEN MaxElementLastFrom(candidates, largest, it + 1)
         ELSE MaxElementLastFrom(candidates, it, it + 1)

MaxElementLast(candidates) == MaxElementLastFrom(candidates, 1, 2)

MaxElement(candidates) == MaxElementFrom(candidates, 1, 2)

----------------------------------------------------------------------------
(* Rigid2d *)

\* Rotation2D * vector, for whole quarter turns
Rotate(angle, v) ==
    LET k == (angle \div QuarterTurn) % 4
    IN  CASE k = 0 -> v
          [] k = 1 -> <<-v[2], v[1]>>
          [] k = 2 -> <<-v[1], -v[2]>>
          [] OTHER -> <<v[2], -v[1]>>

\* Rigid2d operator*
Compose(lhs, rhs) ==
    LET rt == Rotate(lhs.r, rhs.t)
    IN  [t |-> <<rt[1] + lhs.t[1], rt[2] + lhs.t[2]>>, r |-> lhs.r + rhs.r]

\* the offset turned by the initial rotation before it is added
GridPoseRotated(initial_pose_estimate, best_candidate) ==
    LET o == Rotate(initial_pose_estimate.r, <<best_candidate.x, best_candidate.y>>)
    IN  [t |-> <<initial_pose_estimate.t[1] + o[1], initial_pose_estimate.t[2] + o[2]>>,
         r |-> initial_pose_estimate.r + best_candidate.orientation]

\* the pose the grid Match writes for the best candidate
GridPose(initial_pose_estimate, best_candidate) ==
    [t |-> <<initial_pose_estimate.t[1] + best_candidate.x,
             initial_pose_estimate.t[2] + best_candidate.y>>,
     r |-> initial_pose_estimate.r + best_candidate.orientation]

\* delta composed on the right
FinePoseRight(delta, initial_pose_estimate) == Compose(initial_pose_estimate, delta)

\* the pose the submap Match overloads write
FinePose(delta, initial_pose_estimate) == Compose(delta, initial_pose_estimate)

----------------------------------------------------------------------------
(* Match: the three overloads, one invocation per caller at a time *)

Callers == {1, 2}

\* one storage shared by every invocation (a member of the matcher)
SharedFrame(c) == 1

\* the automatic storage of caller c's invocation
Frame(c) == c

Poses == {[t |-> <<0, 0>>, r |-> 0],
          [t |-> <<Resolution \div 2, -Resolution>>, r |-> QuarterTurn]}

LinearWindows == {k * Resolution : k \in 0..MaxWindow}
AngularWindows == {0, AngularStep}
Weights == {0, Scale \div 2}

OptionsSet ==
    [linear_search_window : LinearWindows,
     angular_search_window : AngularWindows,
     translation_delta_cost_weight : Weights,
     rotation_delta_cost_weight : Weights]

GridArgs ==
    [overload : {"grid"}, initial_pose_estimate : Poses,
     point_cloud : PointClouds, pose_estimate_ptr : {"valid"}]
    \cup [overload : {"grid"}, initial_pose_estimate : {[t |-> <<0, 0>>, r |-> 0]},
          point_cloud : {<<[kind |-> "fixed", x |-> 0]>>}, pose_estimate_ptr : {"null"}]

FineArgs ==
    [overload : {"icp", "ndt"},
     initial_pose_estimate : {[t |-> <<Resolution \div 2, -Resolution>>, r |-> QuarterTurn]},
     point_cloud : {<<[kind |-> "fixed", x |-> 0]>>},
     pose_estimate_ptr : {"null", "valid"}]

NoArg == [overload |-> "none", initial_pose_estimate |-> [t |-> <<0, 0>>, r |-> 0],
          point_cloud |-> <<>>, pose_estimate_ptr |-> "null"]

\* what icp.align / ndt.align may leave behind
Registrations ==
    [delta : {[t |-> <<Scale \div 10, -(Scale \div 5)>>, r |-> QuarterTurn]},
     fitness : {Scale \div 20},
     converged : BOOLEAN]

NoRegistration == [delta |-> [t |-> <<0, 0>>, r |-> 0], fitness |-> 0,
                   converged |-> FALSE]

NoSearchParameters == SearchParameters(0, 0, <<>>, Resolution)

NoFrame == [search_parameters |-> NoSearchParameters,
            discrete_scans |-> DiscretizeScans(<<>>, NoSearchParameters),
            candidates |-> <<>>,
            registration |-> NoRegistration]

Unwritten == [written |-> FALSE, t |-> <<0, 0>>, r |-> 0]
Written(pose) == [written |-> TRUE, t |-> pose.t, r |-> pose.r]
NotReturned == [returned |-> FALSE, value |-> 0]
Returned(v) == [returned |-> TRUE, value |-> v]
NoLast == [valid |-> FALSE, value |-> 0, pose |-> Unwritten]

\* CHECK failures and crashes end the process, for every caller
Dead == \E c \in Callers : pc[c] \in {"aborted", "crashed"}

\* what writing through a null pose_estimate may do
NullWriteOutcomes == {"crashed", "done"}

\* a caller invokes Match with a fresh output object
Call(c) ==
    /\ ~Dead
    /\ pc[c] = "idle"
    /\ arg[c].overload # "none"
    /\ pc' = [pc EXCEPT ![c] = "called"]
    /\ pose_estimate' = [pose_estimate EXCEPT ![c] = Unwritten]
    /\ ret' = [ret EXCEPT ![c] = NotReturned]
    /\ UNCHANGED <<options, grid, arg, frame, last, gsp, gres>>

\* grid overload, lines 123-141: the CHECK, the search window, the discrete
\* scans, the candidates
MatchBegin(c) ==
    /\ ~Dead
    /\ pc[c] = "called"
    /\ arg[c].overload = "grid"
    /\ IF arg[c].pose_estimate_ptr = "null"
       THEN /\ pc' = [pc EXCEPT ![c] = "aborted"]
            /\ UNCHANGED frame
       ELSE LET search_parameters ==
                    SearchParameters(options.linear_search_window,
                                     options.angular_search_window,
                                     arg[c].point_cloud, Resolution)
                discrete_scans == DiscretizeScans(arg[c].point_cloud, search_parameters)
                gen == GenerateExhaustiveSearchCandidates(search_parameters)
            IN  /\ frame' = [frame EXCEPT ![Frame(c)] =
                                [search_parameters |-> search_parameters,
                                 discrete_scans |-> discrete_scans,
                                 candidates |-> gen.candidates,
                                 registration |-> NoRegistration]]
                /\ pc' = [pc EXCEPT ![c] =
                            IF gen.status = "ok" THEN "generated" ELSE "aborted"]
    /\ UNCHANGED <<options, grid, arg, pose_estimate, ret, last, gsp, gres>>

\* grid overload, line 142
MatchScore(c) ==
    /\ ~Dead
    /\ pc[c] = "generated"
    /\ LET f == frame[Frame(c)]
           scored == ScoreCandidates(options, grid, f.discrete_scans, f.candidates)
       IN  /\ frame' = [frame EXCEPT ![Frame(c)].candidates = scored.candidates]
           /\ pc' = [pc EXCEPT ![c] =
                        IF scored.status = "ok" THEN "scored" ELSE "aborted"]
    /\ UNCHANGED <<options, grid, arg, pose_estimate, ret, last, gsp, gres>>

\* grid overload, lines 144-150
MatchSelect(c) ==
    /\ ~Dead
    /\ pc[c] = "scored"
    /\ LET candidates == frame[Frame(c)].candidates
           best_candidate == candidates[MaxElement(candidates)]
       IN  /\ pose_estimate' = [pose_estimate EXCEPT ![c] =
                Written(GridPose(arg[c].initial_pose_estimate, best_candidate))]
           /\ ret' = [ret EXCEPT ![c] = Returned(best_candidate.score)]
    /\ pc' = [pc EXCEPT ![c] = "done"]
    /\ UNCHANGED <<options, grid, arg, frame, last, gsp, gres>>

\* submap overloads, lines 157-194 and 211-253: voxel filter, source cloud,
\* align; no check of pose_estimate
FineAlign(c) ==
    /\ ~Dead
    /\ pc[c] = "called"
    /\ arg[c].overload \in {"icp", "ndt"}
    /\ \E registration \in Registrations :
          frame' = [frame EXCEPT ![Frame(c)] =
                      [NoFrame EXCEPT !.registration = registration]]
    /\ pc' = [pc EXCEPT ![c] = "aligned"]
    /\ UNCHANGED <<options, grid, arg, pose_estimate, ret, last, gsp, gres>>

\* submap overloads, lines 198-204 and 257-263
FineWrite(c) ==
    /\ ~Dead
    /\ pc[c] = "aligned"
    /\ LET registration == frame[Frame(c)].registration
       IN  IF arg[c].pose_estimate_ptr = "null"
           THEN /\ \E outcome \in NullWriteOutcomes :
                      pc' = [pc EXCEPT ![c] = outcome]
                /\ ret' = [ret EXCEPT ![c] =
                             IF pc'[c] = "done" THEN Returned(registration.fitness)
                             ELSE NotReturned]
                /\ UNCHANGED pose_estimate
           ELSE /\ pose_estimate' = [pose_estimate EXCEPT ![c] =
                     Written(FinePose(registration.delta,
                                      arg[c].initial_pose_estimate))]
                /\ ret' = [ret EXCEPT ![c] = Returned(registration.fitness)]
                /\ pc' = [pc EXCEPT ![c] = "done"]
    /\ UNCHANGED <<options, grid, arg, frame, last, gsp, gres>>

\* the caller takes the result; it may call again with the same arguments
Return(c) ==
    /\ ~Dead
    /\ pc[c] = "done"
    /\ last' = [last EXCEPT ![c] =
                  [valid |-> TRUE, value |-> ret[c].value, pose |-> pose_estimate[c]]]
    /\ pc' = [pc EXCEPT ![c] = "idle"]
    /\ UNCHANGED <<options, grid, arg, frame, pose_estimate, ret, gsp, gres>>

----------------------------------------------------------------------------
(* Specifications *)

InitCalls ==
    /\ pc = [c \in Callers |-> "idle"]
    /\ frame = [c \in Callers |-> NoFrame]
    /\ pose_estimate = [c \in Callers |-> Unwritten]
    /\ ret = [c \in Callers |-> NotReturned]
    /\ last = [c \in Callers |-> NoLast]

\* one caller, one call, any overload
Init ==
    /\ options \in OptionsSet
    /\ grid \in GridSet
    /\ \E a \in GridArgs \cup FineArgs : arg = [c \in Callers |-> IF c = 1 THEN a ELSE NoArg]
    /\ InitCalls
    /\ gsp = NoSearchParameters
    /\ gres = GenerateExhaustiveSearchCandidates(gsp)

Next ==
    \E c \in Callers :
        \/ Call(c)
        \/ MatchBegin(c)
        \/ MatchScore(c)
        \/ MatchSelect(c)
        \/ FineAlign(c)
        \/ FineWrite(c)

Spec == Init /\ [][Next]_vars

\* two callers of the grid overload on one matcher and one grid, each calling
\* again with the same arguments after it returns
ConcOptions ==
    {o \in OptionsSet : /\ o.linear_search_window = MaxWindow * Resolution
                        /\ o.angular_search_window = AngularStep
                        /\ o.translation_delta_cost_weight # 0
                        /\ o.rotation_delta_cost_weight # 0}

ConcGrids ==
    {g \in GridSet :
        \A cell \in GridCells \ {<<0, 0>>} :
            IF g.type = "PROBABILITY_GRID" THEN g.cells[cell] = kMinProbability
            ELSE g.cells[cell].weight = 0}

ConcArgs ==
    {a \in GridArgs : /\ a.pose_estimate_ptr = "valid"
                      /\ a.point_cloud \in {<<[kind |-> "fixed", x |-> 0]>>,
                                            <<[kind |-> "sweep", x |-> 0]>>}}

InitConc ==
    /\ options \in ConcOptions
    /\ grid \in ConcGrids
    /\ arg \in [Callers -> ConcArgs]
    /\ InitCalls
    /\ gsp = NoSearchParameters
    /\ gres = GenerateExhaustiveSearchCandidates(gsp)

NextConc ==
    \E c \in Callers :
        \/ Call(c)
        \/ MatchBegin(c)
        \/ MatchScore(c)
        \/ MatchSelect(c)
        \/ Return(c)

SpecConc == InitConc /\ [][NextConc]_vars

\* the enumerator on its own
InitGen ==
    /\ gsp \in SearchParametersSet
    /\ gres = NoResult
    /\ options \in {o \in OptionsSet : o.linear_search_window = 0
                                       /\ o.angular_search_window = 0
                                       /\ o.translation_delta_cost_weight = 0
                                       /\ o.rotation_delta_cost_weight = 0}
    /\ grid \in {g \in GridSet : g.type = "PROBABILITY_GRID"
                                 /\ \A cell \in GridCells : g.cells[cell] = kMinProbability}
    /\ arg = [c \in Callers |-> NoArg]
    /\ InitCalls

NextGen == Generate

SpecGen == InitGen /\ [][NextGen]_vars

----------------------------------------------------------------------------
(* Properties *)

GridCallers == {c \in Callers : arg[c].overload = "grid"}
FineCallers == {c \in Callers : arg[c].overload \in {"icp", "ndt"}}

\* callers whose candidates have all been scored
ScoredCallers == {c \in GridCallers : pc[c] \in {"scored", "done"}}

Candidates(c) == frame[c].candidates
Scans(c) == frame[c].discrete_scans

\* the highest score of a non-empty candidate list, and its first index
MaxScore(cs) ==
    LET scores == {cs[i].score : i \in 1..Len(cs)}
    IN  CHOOSE m \in scores : \A n \in scores : n <= m
FirstMaxIndex(cs) ==
    LET m == MaxScore(cs)
    IN  CHOOSE i \in 1..Len(cs) :
            /\ cs[i].score = m
            /\ \A j \in 1..(i - 1) : cs[j].score < m

MaxOf(S) == CHOOSE m \in S : \A n \in S : n <= m

\* scan index, then x offset, then y offset, strictly ascending
Before(a, b) ==
    \/ a.scan_index < b.scan_index
    \/ /\ a.scan_index = b.scan_index
       /\ \/ a.x_index_offset < b.x_index_offset
          \/ /\ a.x_index_offset = b.x_index_offset
             /\ a.y_index_offset < b.y_index_offset

\* C1: whatever SearchParameters it is given, GenerateExhaustiveSearchCandidates
\* returns as many candidates as the precomputed sum of
\* (max_x - min_x + 1) * (max_y - min_y + 1), so its count check never fails.
C1_CountAlwaysMatches ==
    gres.status # "none" =>
        /\ gres.status = "ok"
        /\ Len(gres.candidates) = NumCandidates(gsp, gsp.num_scans)

\* C2: every cell the scorer reads, for every candidate and every cell of the
\* candidate's discrete scan, lies inside the grid.
C2_ReadsInsideGrid ==
    \A c \in GridCallers :
        pc[c] \in {"generated", "scored", "done"} =>
            \A i \in 1..Len(Candidates(c)) :
                LET cand == Candidates(c)[i]
                    scan == Scans(c)[cand.scan_index]
                IN  \A k \in 1..Len(scan) :
                        Contains(ProposedIndex(scan[k], cand.x_index_offset,
                                               cand.y_index_offset))

\* C3: the grid Match returns the highest post-penalty score, and builds the
\* pose from the first candidate attaining it, the candidates being listed by
\* scan index, then x offset, then y offset.
C3_BestIsFirstMaximum ==
    \A c \in GridCallers :
        pc[c] = "done" =>
            LET cs == Candidates(c)
                w == cs[FirstMaxIndex(cs)]
            IN  /\ \A i \in 1..(Len(cs) - 1) : Before(cs[i], cs[i + 1])
                /\ ret[c] = Returned(MaxScore(cs))
                /\ pose_estimate[c].written
                /\ pose_estimate[c].t = <<arg[c].initial_pose_estimate.t[1] + w.x,
                                          arg[c].initial_pose_estimate.t[2] + w.y>>
                /\ pose_estimate[c].r = arg[c].initial_pose_estimate.r + w.orientation

\* C3 witness: a finished grid Match in which two candidates tie for the maximum
C3_TieAtMaximum ==
    \E c \in GridCallers :
        /\ pc[c] = "done"
        /\ LET m == MaxScore(Candidates(c))
           IN  /\ m > 0
               /\ \E i, j \in 1..Len(Candidates(c)) :
                      /\ i < j
                      /\ Candidates(c)[i].score = m
                      /\ Candidates(c)[j].score = m

\* C4 as stated: the penalty exponent is distance^2 * translation weight
\* + |orientation| * rotation weight.
C4_ExponentDistanceSquared ==
    \A c \in ScoredCallers :
        \A i \in 1..Len(Candidates(c)) :
            LET cand == Candidates(c)[i]
                raw == RawScore(grid, Scans(c), cand).score
                e == Mul(Mul(Hypot(cand.x, cand.y), Hypot(cand.x, cand.y)),
                         options.translation_delta_cost_weight)
                     + Mul(Abs(cand.orientation), options.rotation_delta_cost_weight)
            IN  cand.score = Mul(raw, ExpNeg(e))

\* C4 as amended: the penalty exponent is the square of the whole sum
\* distance * translation weight + |orientation| * rotation weight.
C4_ExponentSumSquared ==
    \A c \in ScoredCallers :
        \A i \in 1..Len(Candidates(c)) :
            LET cand == Candidates(c)[i]
                raw == RawScore(grid, Scans(c), cand).score
                sum == Mul(Hypot(cand.x, cand.y), options.translation_delta_cost_weight)
                       + Mul(Abs(cand.orientation), options.rotation_delta_cost_weight)
            IN  cand.score = Mul(raw, ExpNeg(Mul(sum, sum)))

\* C4 witness: a scored candidate away from the centre, both in offset and in
\* rotation, under non-zero weights
C4_PenalizedCandidate ==
    \E c \in ScoredCallers :
        /\ options.translation_delta_cost_weight # 0
        /\ options.rotation_delta_cost_weight # 0
        /\ \E i \in 1..Len(Candidates(c)) :
              /\ Candidates(c)[i].x # 0
              /\ Candidates(c)[i].orientation # 0
              /\ Candidates(c)[i].score > 0

\* C5: the grid Match writes initial translation + the winner's metric offset,
\* not rotated, and initial rotation + the winner's orientation; the
\* translation moves by no more than the winner's linear bounds times the
\* resolution.
C5_PoseIsInitialPlusOffset ==
    \A c \in GridCallers :
        pc[c] = "done" =>
            LET cs == Candidates(c)
                w == cs[FirstMaxIndex(cs)]
                init == arg[c].initial_pose_estimate
                sp == frame[c].search_parameters
                b == sp.linear_bounds[w.scan_index]
                reach == sp.resolution
                         * MaxOf({Abs(b.min_x), Abs(b.max_x), Abs(b.min_y), Abs(b.max_y)})
            IN  /\ pose_estimate[c].written
                /\ pose_estimate[c].t[1] = init.t[1] + w.x
                /\ pose_estimate[c].t[2] = init.t[2] + w.y
                /\ pose_estimate[c].r = init.r + w.orientation
                /\ Abs(pose_estimate[c].t[1] - init.t[1]) <= reach
                /\ Abs(pose_estimate[c].t[2] - init.t[2]) <= reach

\* C5 witness: a finished grid Match from a rotated initial pose whose winner
\* is off-centre
C5_RotatedInitialOffCentreWinner ==
    \E c \in GridCallers :
        /\ pc[c] = "done"
        /\ arg[c].initial_pose_estimate.r # 0
        /\ Candidates(c)[FirstMaxIndex(Candidates(c))].x # 0

\* C6: a Match call with a null output pointer, whatever the overload, aborts
\* before it does any matching work and before it writes through the pointer.
C6_NullPointerAbortsFirst ==
    \A c \in Callers :
        (arg[c].overload # "none" /\ arg[c].pose_estimate_ptr = "null") =>
            pc[c] \in {"idle", "called", "aborted"}

\* summed weight of the TSDF cells a candidate reads
SummedWeight(c, cand) ==
    SumSeq([k \in 1..Len(Scans(c)[cand.scan_index]) |->
              GetTSDAndWeight(grid,
                  ProposedIndex(Scans(c)[cand.scan_index][k],
                                cand.x_index_offset, cand.y_index_offset)).weight])

\* mean probability of the cells a candidate reads is defined and positive
PositiveMean(c, cand) ==
    LET scan == Scans(c)[cand.scan_index]
    IN  /\ Len(scan) > 0
        /\ SumSeq([k \in 1..Len(scan) |->
                     GetProbability(grid, ProposedIndex(scan[k], cand.x_index_offset,
                                                        cand.y_index_offset))]) > 0

\* C7: on a ProbabilityGrid a candidate whose mean probability is not positive
\* aborts Match with the pose unwritten; on a TSDF a candidate with zero summed
\* weight scores 0 and Match goes on to selection.
C7_DegenerateScores ==
    \A c \in GridCallers :
        pc[c] \in {"scored", "done", "aborted"} /\ arg[c].pose_estimate_ptr = "valid" =>
            /\ (grid.type = "PROBABILITY_GRID"
                /\ \E i \in 1..Len(Candidates(c)) : ~PositiveMean(c, Candidates(c)[i]))
               => (pc[c] = "aborted" /\ ~pose_estimate[c].written /\ ~ret[c].returned)
            /\ grid.type = "TSDF" =>
                  /\ pc[c] # "aborted"
                  /\ \A i \in 1..Len(Candidates(c)) :
                        SummedWeight(c, Candidates(c)[i]) = 0
                            => Candidates(c)[i].score = 0
                  /\ pc[c] = "done" =>
                        (pose_estimate[c].written /\ ret[c].returned)

\* C7 witness: a grid Match on a TSDF that finished although a candidate with
\* points had zero summed weight
C7_ZeroWeightCandidateDone ==
    \E c \in GridCallers :
        /\ grid.type = "TSDF"
        /\ pc[c] = "done"
        /\ \E i \in 1..Len(Candidates(c)) :
              /\ Len(Scans(c)[Candidates(c)[i].scan_index]) > 0
              /\ SummedWeight(c, Candidates(c)[i]) = 0
        /\ ret[c].value > 0

\* C7, second case reached: a grid Match on a ProbabilityGrid aborted in scoring
C7_ProbabilityAbort ==
    \E c \in GridCallers :
        /\ grid.type = "PROBABILITY_GRID"
        /\ arg[c].pose_estimate_ptr = "valid"
        /\ pc[c] = "aborted"

\* what caller c's grid Match returns when it runs alone
SoloResult(c) ==
    LET sp == SearchParameters(options.linear_search_window,
                               options.angular_search_window,
                               arg[c].point_cloud, Resolution)
        scored == ScoreCandidates(options, grid, DiscretizeScans(arg[c].point_cloud, sp),
                                  EnumerateCandidates(sp))
        best == scored.candidates[MaxElement(scored.candidates)]
    IN  [ok |-> scored.status = "ok",
         value |-> best.score,
         pose |-> Written(GridPose(arg[c].initial_pose_estimate, best))]

\* C8, the results: a finished call holds the result of the same call run
\* alone, whatever the other caller did meanwhile, and a repeated call returns
\* what the previous one returned.
C8_ResultsAsAlone ==
    \A c \in GridCallers :
        /\ pc[c] = "done" =>
              /\ SoloResult(c).ok
              /\ ret[c] = Returned(SoloResult(c).value)
              /\ pose_estimate[c] = SoloResult(c).pose
              /\ last[c].valid =>
                    (last[c].value = ret[c].value /\ last[c].pose = pose_estimate[c])
        /\ pc[c] = "aborted" => ~SoloResult(c).ok

\* C8, the writes: a step of caller c leaves the configuration, the grid, the
\* arguments and every other caller's frame, output pose and result alone.
C8_StepWritesOwnOnly ==
    /\ options' = options
    /\ grid' = grid
    /\ arg' = arg
    /\ \A c \in Callers :
          pc'[c] = pc[c] =>
              /\ frame'[c] = frame[c]
              /\ pose_estimate'[c] = pose_estimate[c]
              /\ ret'[c] = ret[c]

\* C8: Match touches no shared mutable state, so concurrent grid Match calls
\* on one matcher and one grid each return what they return alone.
C8_NoSharedMutableState == [](C8_ResultsAsAlone) /\ [][C8_StepWritesOwnOnly]_vars

\* C8 witness: both callers finished, with different results, one of them for
\* the second time
C8_BothDone ==
    /\ pc[1] = "done"
    /\ pc[2] = "done"
    /\ pose_estimate[1] # pose_estimate[2]
    /\ last[1].valid

\* C9: the centre candidate (zero offsets, zero rotation) keeps its raw score:
\* its penalty multiplier is 1 for any weights.
C9_CentreUnpenalized ==
    \A c \in ScoredCallers :
        \A i \in 1..Len(Candidates(c)) :
            LET cand == Candidates(c)[i]
            IN  (cand.x = 0 /\ cand.y = 0 /\ cand.orientation = 0)
                => cand.score = RawScore(grid, Scans(c), cand).score

\* C9 witness: a scored centre candidate with a positive score under non-zero
\* weights
C9_CentreScored ==
    \E c \in ScoredCallers :
        /\ options.translation_delta_cost_weight # 0
        /\ options.rotation_delta_cost_weight # 0
        /\ \E i \in 1..Len(Candidates(c)) :
              /\ Candidates(c)[i].x = 0
              /\ Candidates(c)[i].y = 0
              /\ Candidates(c)[i].orientation = 0
              /\ Candidates(c)[i].score > 0

\* C10: both submap overloads write delta * initial (delta on the left) and
\* return the fitness, converged or not.
C10_FinePoseIsDeltaTimesInitial ==
    \A c \in FineCallers :
        (pc[c] = "done" /\ arg[c].pose_estimate_ptr = "valid") =>
            LET reg == frame[c].registration
                init == arg[c].initial_pose_estimate
                turned == Rotate(reg.delta.r, init.t)
            IN  /\ pose_estimate[c].written
                /\ pose_estimate[c].t = <<turned[1] + reg.delta.t[1],
                                          turned[2] + reg.delta.t[2]>>
                /\ pose_estimate[c].r = reg.delta.r + init.r
                /\ ret[c] = Returned(reg.fitness)

\* C10 witness: a submap Match that finished without convergence, from an
\* initial pose that does not commute with delta
C10_UnconvergedWritten ==
    \E c \in FineCallers :
        /\ pc[c] = "done"
        /\ pose_estimate[c].written
        /\ ~frame[c].registration.converged
        /\ arg[c].initial_pose_estimate.r # 0

====
